---- MODULE Spec2Model ----
(***************************************************************************)
(* Model of the insight engine of alquimia_app_v1.py: the session state    *)
(* (roda_scores, smart_goals) and the two functions that read it,          *)
(* analyze_roda_insights and should_show_insights.                         *)
(*                                                                         *)
(* Scores are multiples of 0.5 (the slider step); the model stores a score *)
(* as the integer number of ScoreUnit-ths, so 3.5 is stored as 7, and every*)
(* comparison with a threshold of the source is scaled accordingly.        *)
(* A Python dict is modelled as the sequence of its items in insertion     *)
(* order, a Python list as a sequence.                                     *)
(***************************************************************************)
EXTENDS Integers, Sequences, FiniteSets, TLC

VARIABLES
  roda_scores,    \* st.session_state.roda_scores
  smart_goals,    \* st.session_state.smart_goals
  insights,       \* outcome of the call of analyze_roda_insights()
  goals_by_area,  \* the local dict goals_by_area of that call, at its end
  show_insights,  \* outcome of the call of should_show_insights()
  pc,             \* "ready" before the call, then which function was called
  history,        \* st.session_state.history
  data_file,      \* the file DATA_FILE
  sliders,        \* widget state of the sliders slider_{area}
  manual,         \* the assessment method chosen is the manual one
  clock,          \* datetime.now(), in ticks
  last_op,        \* the user action the last script run served
  save_result,    \* what the last save_data() of that run returned
  run_aborted,    \* the exception that ended that run, or "none"
  init_changed,   \* initialize_session_state() at the start of a run of
                  \* that action changed roda_scores, smart_goals or history
  tab2            \* what tab2 keeps between runs: editing_goal_idx and
                  \* expanded_goals of st.session_state, the widget state
                  \* of the checkboxes goal_complete_{idx} and of the area
                  \* filter

vars ==
  <<roda_scores, smart_goals, insights, goals_by_area, show_insights, pc,
    history, data_file, sliders, manual, clock, last_op, save_result,
    run_aborted, init_changed, tab2>>

----------------------------------------------------------------------------
(* Bounds of the model *)

MaxAreas == 4
MaxGoals == 2
\* areas of a session whose calls are checked for side effects
MaxCallAreas == 3
\* check-ins beyond HISTORY_CAP the history specification makes
MaxOverflow == 2
\* check-ins and goals the application specification makes
MaxAppCheckins == 1
MaxAppGoals == 1
\* option strings selected in one deletion of check-ins, and how far under
\* HISTORY_CAP deletions take the history
MaxSelected == 2
MaxDeleted == 1
\* keys of roda_scores and goals in a document that is loaded
MaxDocKeys == 2
MaxDocGoals == 1
\* check-ins that one calendar day has room for
TicksPerDay == 6
\* goals in the document of the goal list specification, and the goals and
\* check-ins it then makes
MaxListGoals == 2
MaxListTicks == 1
\* cards expanded at one time, and goals edited, in that specification
MaxExpanded == 1
MaxEdited == 1

----------------------------------------------------------------------------
(* Constants of the program *)

\* st.slider(step=0.5): a score is a multiple of 1/ScoreUnit
ScoreUnit == 2
LOW_SCORE_THRESHOLD == 5
CRITICAL_THRESHOLD == 3
\* the literal 5 of the priority_level expression
HIGH_LITERAL == 5
\* avg_score < 7.5, written as the fraction SHOW_LIMIT_NUM / SHOW_LIMIT_DEN
SHOW_LIMIT_NUM == 15
SHOW_LIMIT_DEN == 2

\* keys of DEFAULT_RODA_SCORES, in insertion order
AreaNames ==
  << "Saude", "Carreira", "Financas", "Relacionamentos", "Familia",
     "Espiritualidade", "Diversao", "Crescimento Pessoal",
     "Ambiente Fisico", "Criatividade" >>

\* an area name that is no key of the score mapping
StrayArea == "Outra"

\* score values the sessions of the model carry, in ScoreUnit-ths:
\* 3.0, 5.0, 5.5, 7.0 and 8.0
ScoreValues == {6, 10, 11, 14, 16}

\* areas of roda_scores the goals of the model name
GoalAreas == {AreaNames[1], AreaNames[2]}

Min(a, b) == IF a <= b THEN a ELSE b

----------------------------------------------------------------------------
(* Python primitives *)

\* score <= threshold, for a stored score and a threshold of the source
ScoreLe(score, threshold) == score <= threshold * ScoreUnit

\* s[:n]
Slice(s, n) == SubSeq(s, 1, Min(n, Len(s)))

\* variant: the item goes before the items of equal key (not stable)
RECURSIVE InsertByScoreUnstable(_, _)
InsertByScoreUnstable(s, x) ==
  IF s = <<>> THEN <<x>>
  ELSE IF Head(s).score < x.score
       THEN <<Head(s)>> \o InsertByScoreUnstable(Tail(s), x)
       ELSE <<x>> \o s

\* insert item x into the sorted list s after every item whose key is <= x's
RECURSIVE InsertByScore(_, _)
InsertByScore(s, x) ==
  IF s = <<>> THEN <<x>>
  ELSE IF Head(s).score <= x.score
       THEN <<Head(s)>> \o InsertByScore(Tail(s), x)
       ELSE <<x>> \o s

\* sorted(items, key=lambda x: x[1]): stable, ascending
RECURSIVE SortedByScore(_)
SortedByScore(items) ==
  IF items = <<>> THEN <<>>
  ELSE InsertByScore(SortedByScore(SubSeq(items, 1, Len(items) - 1)),
                     items[Len(items)])

\* [x for x in s if score <= threshold]
RECURSIVE FilterLe(_, _)
FilterLe(s, threshold) ==
  IF s = <<>> THEN <<>>
  ELSE IF ScoreLe(Head(s).score, threshold)
       THEN <<Head(s)>> \o FilterLe(Tail(s), threshold)
       ELSE FilterLe(Tail(s), threshold)

\* sum(roda_scores.values())
RECURSIVE SumScores(_)
SumScores(items) ==
  IF items = <<>> THEN 0 ELSE Head(items).score + SumScores(Tail(items))

\* goal.get('completed', False)
GoalCompleted(goal) ==
  IF "completed" \in DOMAIN goal THEN goal.completed ELSE FALSE

----------------------------------------------------------------------------
(* analyze_roda_insights *)

\* variant: every known area starts with an entry of zero counts
EmptyDictZeroInit ==
  [a \in {AreaNames[i] : i \in 1..Len(AreaNames)} |->
     [total |-> 0, completed |-> 0, pending |-> 0]]

\* goals_by_area = {}
EmptyDict == <<>>

\* variant: 'pending' is incremented for every goal (the else is missing)
AggregateGoalNoElse(by_area, goal) ==
  LET area == goal.area
      present ==
        IF area \in DOMAIN by_area
        THEN by_area
        ELSE (area :> [total |-> 0, completed |-> 0, pending |-> 0])
               @@ by_area
      counted == [present EXCEPT ![area].total = @ + 1]
      done == IF GoalCompleted(goal)
              THEN [counted EXCEPT ![area].completed = @ + 1]
              ELSE counted
  IN  [done EXCEPT ![area].pending = @ + 1]

\* one iteration of "for goal in smart_goals" over the dict goals_by_area
AggregateGoal(by_area, goal) ==
  LET area == goal.area
      present ==
        IF area \in DOMAIN by_area
        THEN by_area
        ELSE (area :> [total |-> 0, completed |-> 0, pending |-> 0])
               @@ by_area
      counted == [present EXCEPT ![area].total = @ + 1]
  IN  IF GoalCompleted(goal)
      THEN [counted EXCEPT ![area].completed = @ + 1]
      ELSE [counted EXCEPT ![area].pending = @ + 1]

\* the whole loop "for goal in smart_goals", first goal first
RECURSIVE GoalsByArea(_)
GoalsByArea(goals) ==
  IF goals = <<>> THEN EmptyDict
  ELSE AggregateGoal(GoalsByArea(SubSeq(goals, 1, Len(goals) - 1)),
                     goals[Len(goals)])

\* variant: only the count 'total' is read from the entry of the area
GetCountOfTotal(by_area, area, field) ==
  IF area \in DOMAIN by_area /\ field = "total" THEN by_area[area][field]
  ELSE 0

\* goals_by_area.get(area, {}).get(field, 0)
GetCount(by_area, area, field) ==
  IF area \in DOMAIN by_area THEN by_area[area][field] ELSE 0

\* variant: sorted_areas[1:3]
Bottom3FromOne(sorted_areas) ==
  IF Len(sorted_areas) = 0 THEN <<>>
  ELSE Slice(Tail(sorted_areas), 2)

\* bottom_3_areas = sorted_areas[:3]
Bottom3(sorted_areas) == Slice(sorted_areas, 3)

\* variant: the thresholds are exclusive
PriorityLevelExclusive(score) ==
  IF score < CRITICAL_THRESHOLD * ScoreUnit THEN "critical"
  ELSE IF score < HIGH_LITERAL * ScoreUnit THEN "high"
  ELSE "medium"

\* 'critical' if score <= CRITICAL_THRESHOLD else 'high' if score <= 5
\* else 'medium'
PriorityLevel(score) ==
  IF ScoreLe(score, CRITICAL_THRESHOLD) THEN "critical"
  ELSE IF ScoreLe(score, HIGH_LITERAL) THEN "high"
  ELSE "medium"

\* 'critical' if score <= CRITICAL_THRESHOLD else 'high'
Severity(score) ==
  IF ScoreLe(score, CRITICAL_THRESHOLD) THEN "critical" ELSE "high"

\* variant: the second branch does not test pending_count
MessageAndActionNoPendingTest(rec) ==
  IF ~rec.has_goals
  THEN [message |-> <<"Nenhuma meta criada ainda">>,
        action |-> "create_first"]
  ELSE IF rec.completed_count > 0
  THEN [message |-> <<"Todas as", rec.goal_count,
                      "meta(s) completadas, mas pontuacao ainda baixa">>,
        action |-> "create_more"]
  ELSE IF rec.pending_count > 0
  THEN [message |-> <<rec.pending_count, "meta(s) pendente(s)">>,
        action |-> "focus_existing"]
  ELSE [message |-> <<"Area precisa de atencao">>,
        action |-> "create_first"]

\* the if / elif / elif / else that sets rec['message'] and rec['action']
MessageAndAction(rec) ==
  IF ~rec.has_goals
  THEN [message |-> <<"Nenhuma meta criada ainda">>,
        action |-> "create_first"]
  ELSE IF rec.pending_count = 0 /\ rec.completed_count > 0
  THEN [message |-> <<"Todas as", rec.goal_count,
                      "meta(s) completadas, mas pontuacao ainda baixa">>,
        action |-> "create_more"]
  ELSE IF rec.pending_count > 0
  THEN [message |-> <<rec.pending_count, "meta(s) pendente(s)">>,
        action |-> "focus_existing"]
  ELSE [message |-> <<"Area precisa de atencao">>,
        action |-> "create_first"]

\* variant: has_goals tells whether any area has goals
RecommendationAnyArea(item, by_area) ==
  LET rec == [area |-> item.area,
              score |-> item.score,
              has_goals |-> DOMAIN by_area # {},
              goal_count |-> GetCount(by_area, item.area, "total"),
              pending_count |-> GetCount(by_area, item.area, "pending"),
              completed_count |->
                GetCount(by_area, item.area, "completed"),
              priority_level |-> PriorityLevel(item.score)]
      ma == MessageAndAction(rec)
  IN  [area |-> rec.area,
       score |-> rec.score,
       has_goals |-> rec.has_goals,
       goal_count |-> rec.goal_count,
       pending_count |-> rec.pending_count,
       completed_count |-> rec.completed_count,
       priority_level |-> rec.priority_level,
       message |-> ma.message,
       action |-> ma.action]

\* the body of "for area, score in bottom_3_areas"
Recommendation(item, by_area) ==
  LET rec == [area |-> item.area,
              score |-> item.score,
              has_goals |-> item.area \in DOMAIN by_area,
              goal_count |-> GetCount(by_area, item.area, "total"),
              pending_count |-> GetCount(by_area, item.area, "pending"),
              completed_count |->
                GetCount(by_area, item.area, "completed"),
              priority_level |-> PriorityLevel(item.score)]
      ma == MessageAndAction(rec)
  IN  [area |-> rec.area,
       score |-> rec.score,
       has_goals |-> rec.has_goals,
       goal_count |-> rec.goal_count,
       pending_count |-> rec.pending_count,
       completed_count |-> rec.completed_count,
       priority_level |-> rec.priority_level,
       message |-> ma.message,
       action |-> ma.action]

\* variant: each recommendation is put at the front of the list
PriorityRecommendationsReversed(bottom_3_areas, by_area) ==
  [i \in 1..Len(bottom_3_areas) |->
     Recommendation(bottom_3_areas[Len(bottom_3_areas) + 1 - i], by_area)]

\* priority_recommendations: one append per item of bottom_3_areas
PriorityRecommendations(bottom_3_areas, by_area) ==
  [i \in 1..Len(bottom_3_areas) |->
     Recommendation(bottom_3_areas[i], by_area)]

\* variant: the loop runs over the first three low areas only
RECURSIVE AreasWithoutGoalsOfThree(_, _)
AreasWithoutGoalsOfThree(low_areas, by_area) ==
  IF low_areas = <<>> THEN <<>>
  ELSE LET three == Slice(low_areas, 3)
           item == Head(three)
           rest == IF Len(three) = 1 THEN <<>>
                   ELSE AreasWithoutGoalsOfThree(
                          SubSeq(three, 2, Len(three)), by_area)
       IN  IF item.area \notin DOMAIN by_area
           THEN <<[area |-> item.area, score |-> item.score,
                   severity |-> Severity(item.score)]>> \o rest
           ELSE rest

\* the loop "for area, score in low_areas" filling areas_without_goals
RECURSIVE AreasWithoutGoals(_, _)
AreasWithoutGoals(low_areas, by_area) ==
  IF low_areas = <<>> THEN <<>>
  ELSE LET item == Head(low_areas)
           rest == AreasWithoutGoals(Tail(low_areas), by_area)
       IN  IF item.area \notin DOMAIN by_area
           THEN <<[area |-> item.area, score |-> item.score,
                   severity |-> Severity(item.score)]>> \o rest
           ELSE rest

\* the function, given the dict its goal loop has built
InsightsOf(scores, by_area) ==
  LET sorted_areas == SortedByScore(scores)
      low_areas == FilterLe(sorted_areas, LOW_SCORE_THRESHOLD)
      critical_areas == FilterLe(sorted_areas, CRITICAL_THRESHOLD)
      bottom_3_areas == Bottom3(sorted_areas)
  IN  [bottom_3 |-> bottom_3_areas,
       critical_areas |-> critical_areas,
       low_areas |-> low_areas,
       areas_without_goals |-> AreasWithoutGoals(low_areas, by_area),
       priority_recommendations |->
         PriorityRecommendations(bottom_3_areas, by_area)]

\* goal['area'] raises KeyError on a goal that has no 'area' key
analyze_roda_insights(scores, goals) ==
  IF \E i \in 1..Len(goals) : "area" \notin DOMAIN goals[i]
  THEN [raised |-> "KeyError"]
  ELSE [raised |-> "none"] @@ InsightsOf(scores, GoalsByArea(goals))

----------------------------------------------------------------------------
(* should_show_insights *)

\* variant: avg_score <= 7.5
should_show_insights_le(scores) ==
  IF Len(scores) = 0
  THEN [raised |-> "ZeroDivisionError"]
  ELSE [raised |-> "none",
        value |-> SumScores(scores) * SHOW_LIMIT_DEN
                    <= SHOW_LIMIT_NUM * ScoreUnit * Len(scores)]

\* sum(values) / len(values) < 7.5; the division raises ZeroDivisionError
\* when the mapping is empty.  sum / (ScoreUnit * len) < NUM / DEN is
\* compared exactly, by cross-multiplication.
should_show_insights(scores) ==
  IF Len(scores) = 0
  THEN [raised |-> "ZeroDivisionError"]
  ELSE [raised |-> "none",
        value |-> SumScores(scores) * SHOW_LIMIT_DEN
                    < SHOW_LIMIT_NUM * ScoreUnit * Len(scores)]

----------------------------------------------------------------------------
(* render_roda_insights *)

\* the list "Outras Areas sem Metas" is shown when areas_without_goals has
\* more items than this, and names its items after the first so many
OTHER_AREAS_SKIPPED == 3

\* areas_text: the items of areas_without_goals[3:], or nothing when the
\* list has 3 items or fewer
OtherAreasWithoutGoals(areas_without_goals) ==
  IF Len(areas_without_goals) > OTHER_AREAS_SKIPPED
  THEN SubSeq(areas_without_goals, OTHER_AREAS_SKIPPED + 1,
              Len(areas_without_goals))
  ELSE <<>>

\* the areas the section names, given the insights: nothing when there is
\* no recommendation, else one card per recommendation and the list of the
\* other areas without goals
render_roda_insights(ins) ==
  IF Len(ins.priority_recommendations) = 0 THEN {}
  ELSE {ins.priority_recommendations[i].area :
          i \in 1..Len(ins.priority_recommendations)}
       \cup {OtherAreasWithoutGoals(ins.areas_without_goals)[i].area :
               i \in 1..Len(OtherAreasWithoutGoals(ins.areas_without_goals))}

----------------------------------------------------------------------------
(* The persisted document: load_data, save_data, initialize_session_state *)

\* keys of old_to_new, in the order of its values AreaNames
LegacyNames ==
  << "Saude/Health", "Carreira/Career", "Financas/Finances",
     "Relacionamentos/Relationships", "Familia/Family",
     "Espiritualidade/Spirituality", "Diversao/Fun",
     "Crescimento Pessoal/Growth", "Ambiente Fisico/Home",
     "Criatividade/Creativity" >>

\* variant of DEFAULT_RODA_SCORES: every area starts at 5
DefaultScoresOfFive ==
  [n \in 1..Len(AreaNames) |-> [area |-> AreaNames[n], score |-> 10]]

\* the ten areas, each with score 0
DEFAULT_RODA_SCORES ==
  [i \in 1..Len(AreaNames) |-> [area |-> AreaNames[i], score |-> 0]]

\* key in d, d[key] and d[key] = value for a dict d of area -> score
HasKey(d, key) == \E i \in 1..Len(d) : d[i].area = key

ValueOf(d, key) == d[CHOOSE i \in 1..Len(d) : d[i].area = key].score

DictSet(d, key, value) ==
  IF HasKey(d, key)
  THEN [i \in 1..Len(d) |->
          IF d[i].area = key THEN [area |-> key, score |-> value] ELSE d[i]]
  ELSE Append(d, [area |-> key, score |-> value])

\* the file DATA_FILE: absent, not parsable, or a JSON object.  Only the
\* keys roda_scores, smart_goals and history of the object are kept: the
\* code modelled here reads no other; other_keys tells whether the object
\* has other keys, which counts for its truth value.
NoFile == [kind |-> "missing"]

CorruptFile == [kind |-> "corrupt"]

JsonFile(data) == [kind |-> "json", data |-> data]

\* variant: the migrated key is put in front of the keys migrated so far
MigrateKeyPrepend(so_far, scores, n) ==
  IF HasKey(scores, LegacyNames[n])
  THEN <<[area |-> AreaNames[n],
          score |-> ValueOf(scores, LegacyNames[n])]>> \o so_far
  ELSE IF HasKey(scores, AreaNames[n])
  THEN <<[area |-> AreaNames[n],
          score |-> ValueOf(scores, AreaNames[n])]>> \o so_far
  ELSE so_far

\* one iteration of "for old_key, new_key in old_to_new.items()", the n-th:
\* migrated_scores[new_key] is set from the old key, else from the new key
MigrateKey(so_far, scores, n) ==
  IF HasKey(scores, LegacyNames[n])
  THEN DictSet(so_far, AreaNames[n], ValueOf(scores, LegacyNames[n]))
  ELSE IF HasKey(scores, AreaNames[n])
  THEN DictSet(so_far, AreaNames[n], ValueOf(scores, AreaNames[n]))
  ELSE so_far

\* migrated_scores after the first n iterations of the loop
RECURSIVE MigratedScores(_, _)
MigratedScores(scores, n) ==
  IF n = 0 THEN <<>>
  ELSE MigrateKey(MigratedScores(scores, n - 1), scores, n)

\* variant: data['roda_scores'] is replaced even when nothing was migrated
ReplaceScoresAlways(migrated_scores, scores) == migrated_scores

\* "if migrated_scores: data['roda_scores'] = migrated_scores"
ReplaceScores(migrated_scores, scores) ==
  IF migrated_scores # <<>> THEN migrated_scores ELSE scores

\* data['roda_scores'] after the migration
MigrateScores(scores) ==
  ReplaceScores(MigratedScores(scores, Len(LegacyNames)), scores)

\* variant: the area of the goals is not migrated
MigrateGoalNot(goal) == goal

\* the body of "for goal in data['smart_goals']"
MigrateGoal(goal) ==
  IF /\ "area" \in DOMAIN goal
     /\ \E n \in 1..Len(LegacyNames) : goal.area = LegacyNames[n]
  THEN [goal EXCEPT !.area =
          AreaNames[CHOOSE n \in 1..Len(LegacyNames) :
                      goal.area = LegacyNames[n]]]
  ELSE goal

\* lines 59-84: the migration of data['roda_scores'], if the key is there
MigrateDataScores(data) ==
  IF "roda_scores" \in DOMAIN data
  THEN [data EXCEPT !.roda_scores = MigrateScores(@)]
  ELSE data

\* variant: the migrated goals are added to the list, after the goals read
MigrateDataGoalsAppend(data) ==
  IF "smart_goals" \in DOMAIN data
  THEN [data EXCEPT !.smart_goals =
          @ \o [i \in 1..Len(@) |-> MigrateGoal(@[i])]]
  ELSE data

\* lines 86-106: the migration of data['smart_goals'], if the key is there
MigrateDataGoals(data) ==
  IF "smart_goals" \in DOMAIN data
  THEN [data EXCEPT !.smart_goals = [i \in 1..Len(@) |-> MigrateGoal(@[i])]]
  ELSE data

\* None, or the migrated data
load_data(file) ==
  IF file.kind = "missing" THEN [none |-> TRUE, error |-> FALSE]
  ELSE IF file.kind = "corrupt" THEN [none |-> TRUE, error |-> TRUE]
  ELSE [none |-> FALSE, error |-> FALSE,
        data |-> MigrateDataGoals(MigrateDataScores(file.data))]

\* data.get(key, default)
DataGet(data, key, default) ==
  IF key \in DOMAIN data THEN data[key] ELSE default

\* the body of initialize_session_state on what load_data returned: "if
\* data" is false for None and for an empty object
SessionFrom(loaded) ==
  IF ~loaded.none /\ DOMAIN loaded.data # {}
  THEN [roda_scores |->
          DataGet(loaded.data, "roda_scores", DEFAULT_RODA_SCORES),
        smart_goals |-> DataGet(loaded.data, "smart_goals", <<>>),
        history |-> DataGet(loaded.data, "history", <<>>)]
  ELSE [roda_scores |-> DEFAULT_RODA_SCORES,
        smart_goals |-> <<>>,
        history |-> <<>>]

\* roda_scores, smart_goals and history of the session after the call
\* ("if data" is false for None and for an empty object)
initialize_session_state(file, session) == SessionFrom(load_data(file))

\* the object save_data dumps
SavedData(session) ==
  [roda_scores |-> session.roda_scores,
   smart_goals |-> session.smart_goals,
   history |-> session.history,
   other_keys |-> TRUE]

\* outcomes of the write of save_data: done, open() raises (the file is as
\* before), json.dump raises after open() has truncated the file
SaveOutcomes == {"ok", "open_failed", "write_failed"}

\* the return value of save_data and the file it leaves
save_data(session, file, outcome) ==
  IF outcome = "ok"
  THEN [returned |-> TRUE, file |-> JsonFile(SavedData(session))]
  ELSE IF outcome = "open_failed"
  THEN [returned |-> FALSE, file |-> file]
  ELSE [returned |-> FALSE, file |-> CorruptFile]

----------------------------------------------------------------------------
(* add_to_history *)

\* len(history) > 12, history[-12:]
HISTORY_CAP == 12

\* variant: history[:12]
KeepLastFirst(h) ==
  IF Len(h) > HISTORY_CAP THEN SubSeq(h, 1, HISTORY_CAP) ELSE h

\* if len(history) > 12: history = history[-12:]
KeepLast(h) ==
  IF Len(h) > HISTORY_CAP
  THEN SubSeq(h, Len(h) - HISTORY_CAP + 1, Len(h))
  ELSE h

\* the entry of a check-in at time now; avg_score is the quotient
\* sum / len, kept as the fraction num / den of its exact value
HistoryEntry(scores, now) ==
  [date |-> now,
   roda_scores |-> scores,
   avg_score |-> [num |-> SumScores(scores),
                  den |-> ScoreUnit * Len(scores)]]

\* the history after the call and the exception it raised: the division
\* raises ZeroDivisionError on an empty mapping, before the append
add_to_history(session, now) ==
  IF Len(session.roda_scores) = 0
  THEN [raised |-> "ZeroDivisionError", history |-> session.history]
  ELSE [raised |-> "none",
        history |->
          KeepLast(Append(session.history,
                          HistoryEntry(session.roda_scores, now)))]

----------------------------------------------------------------------------
(* The session state the functions are called on, and the calls *)

\* roda_scores of a session: the first n areas of DEFAULT_RODA_SCORES, each
\* with a score.  A session has fewer than the ten areas, or none, when the
\* document it was loaded from has (initialize_session_state takes the
\* mapping of the document as it is).
ScoreMappings ==
  UNION { { [i \in 1..n |-> [area |-> AreaNames[i], score |-> v[i]]] :
              v \in [1..n -> ScoreValues] } : n \in 0..MaxAreas }

\* a goal as analyze_roda_insights reads it: its area and, when the goal
\* has one, its completed flag.  The goals of the model are the goals of
\* two areas with either flag, a goal without the flag, and a pending goal
\* of an area that roda_scores does not have.
Goals ==
  [area : GoalAreas, completed : BOOLEAN]
    \cup {[area |-> AreaNames[1]]}
    \cup {[area |-> StrayArea, completed |-> FALSE]}

GoalLists == UNION { [1..n -> Goals] : n \in 0..MaxGoals }

NotCalled == [called |-> FALSE]

\* tab2 before its first run: no goal is edited or expanded, no checkbox
\* has a state, the filter shows every area.  key_only tells how the
\* installed Streamlit identifies a widget that has a key: by the key
\* alone, or by the key and the parameters it is created with (a checkbox
\* whose value= differs is then a new widget, in its default state).
\* edit_clicked_on is the created_date of the goal whose "Editar" set
\* editing_goal_idx; the program does not keep it.
NoTab2(key_only) ==
  [editing_goal_idx |-> <<>>,
   edit_clicked_on |-> <<>>,
   expanded_goals |-> {},
   goal_complete |-> {},
   filter_area |-> "Todas",
   key_only |-> key_only]

\* the session state as the three keys the document persists
Session(scores, goals, hist) ==
  [roda_scores |-> scores, smart_goals |-> goals, history |-> hist]

\* what a session that calls the functions has beside scores and goals
Called(hist, file) ==
  /\ insights = NotCalled
  /\ goals_by_area = EmptyDict
  /\ show_insights = NotCalled
  /\ pc = "ready"
  /\ history = hist
  /\ data_file = file
  /\ sliders = EmptyDict
  /\ manual = FALSE
  /\ clock = 1
  /\ last_op = [op |-> "start"]
  /\ save_result = NotCalled
  /\ run_aborted = "none"
  /\ init_changed = FALSE
  /\ tab2 = NoTab2(TRUE)

\* a session of any scores and goals, with no check-in and no document
Init ==
  /\ roda_scores \in ScoreMappings
  /\ smart_goals \in GoalLists
  /\ Called(<<>>, NoFile)

\* what a call of one of the two functions leaves alone
CallFrame ==
  UNCHANGED <<history, data_file, sliders, manual, clock, last_op,
              save_result, run_aborted, init_changed, tab2>>

\* variant: the call writes the default of 'completed' into the goals it
\* reads (goal.setdefault in place of goal.get)
AnalyzeRodaInsightsSetDefault ==
  /\ pc = "ready"
  /\ insights' =
       [called |-> TRUE] @@ analyze_roda_insights(roda_scores, smart_goals)
  /\ goals_by_area' =
       IF insights'.raised = "none" THEN GoalsByArea(smart_goals)
       ELSE EmptyDict
  /\ pc' = "analyzed"
  /\ smart_goals' =
       [i \in 1..Len(smart_goals) |->
          IF "completed" \in DOMAIN smart_goals[i] THEN smart_goals[i]
          ELSE smart_goals[i] @@ [completed |-> FALSE]]
  /\ UNCHANGED <<roda_scores, show_insights>>
  /\ CallFrame

\* a call of analyze_roda_insights() on the session state
AnalyzeRodaInsights ==
  /\ pc = "ready"
  /\ insights' =
       [called |-> TRUE] @@ analyze_roda_insights(roda_scores, smart_goals)
  /\ goals_by_area' =
       IF insights'.raised = "none" THEN GoalsByArea(smart_goals)
       ELSE EmptyDict
  /\ pc' = "analyzed"
  /\ UNCHANGED <<roda_scores, smart_goals, show_insights>>
  /\ CallFrame

\* a call of should_show_insights() on the session state
ShouldShowInsights ==
  /\ pc = "ready"
  /\ show_insights' = [called |-> TRUE] @@ should_show_insights(roda_scores)
  /\ pc' = "shown"
  /\ UNCHANGED <<roda_scores, smart_goals, insights, goals_by_area>>
  /\ CallFrame

Next == AnalyzeRodaInsights \/ ShouldShowInsights

Spec == Init /\ [][Next]_vars

\* a session of at most MaxCallAreas areas that has made one check-in of
\* its scores, at tick 0, and was saved
CallInit ==
  /\ roda_scores \in {scores \in ScoreMappings : Len(scores) <= MaxCallAreas}
  /\ smart_goals \in GoalLists
  /\ Called(add_to_history(Session(roda_scores, smart_goals, <<>>),
                           0).history,
            JsonFile(SavedData(Session(roda_scores, smart_goals,
                                       add_to_history(
                                         Session(roda_scores, smart_goals,
                                                 <<>>), 0).history))))

CallSpec == CallInit /\ [][Next]_vars

----------------------------------------------------------------------------
(* One run of the script, from line 1695 to its end or to the statement    *)
(* that stops it.  Streamlit runs the script once per user action; the     *)
(* session state and the state of the keyed widgets outlive the run.  The  *)
(* quiz of tab1 is not modelled: scores change by the sliders only.        *)

\* the state a run works on: the session, the file, the widget state of
\* the sliders, the chosen method, the state of tab2, and the record of the
\* run: its save, its exception, whether st.rerun() stopped it, and the
\* checkboxes of tab2 it has created
RunState(scores, goals, hist, file, widgets, method, ui) ==
  [roda_scores |-> scores, smart_goals |-> goals, history |-> hist,
   file |-> file, sliders |-> widgets, manual |-> method, tab2 |-> ui,
   save_result |-> NotCalled, aborted |-> "none", init_changed |-> FALSE,
   rerun |-> FALSE, rendered |-> {}]

SessionOf(m) == Session(m.roda_scores, m.smart_goals, m.history)

\* the run state with the session state s
WithSession(m, s) ==
  [m EXCEPT !.roda_scores = s.roda_scores,
            !.smart_goals = s.smart_goals,
            !.history = s.history,
            !.init_changed = (@ \/ s # SessionOf(m))]

\* line 1695: initialize_session_state() on every run
RunInitialize(m) ==
  WithSession(m, initialize_session_state(m.file, SessionOf(m)))

\* the run state after a save_data() that returned r
WithSave(m, r) ==
  [m EXCEPT !.file = r.file,
            !.save_result = [called |-> TRUE,
                             returned |-> r.returned,
                             session |-> SessionOf(m)]]

\* a call of save_data() whose write has the given outcome
DoSave(m, outcome) == WithSave(m, save_data(SessionOf(m), m.file, outcome))

AllZero(scores) == \A k \in 1..Len(scores) : scores[k].score = 0

\* tab1, lines 1873-1876: load_data() returned data with a non-empty
\* roda_scores that has a score other than 0
WorthReloading(loaded) ==
  /\ ~loaded.none
  /\ DOMAIN loaded.data # {}
  /\ "roda_scores" \in DOMAIN loaded.data
  /\ Len(loaded.data.roda_scores) > 0
  /\ ~AllZero(loaded.data.roda_scores)

\* tab1, lines 1872-1879: the scores are all 0 (or there are none) and the
\* document is worth reloading
ZeroReloadFires(m) ==
  AllZero(m.roda_scores) /\ WorthReloading(load_data(m.file))

\* the assignment of the reload, which st.rerun() follows
ZeroReload(m) ==
  [m EXCEPT !.roda_scores = load_data(m.file).data.roda_scores]

\* tab1, lines 2220-2265: each slider returns the value of its widget, which
\* is the value the user moved it to in this run, else its widget state,
\* else the score it is created with; the value is stored in roda_scores
SliderValue(m, ev, item) ==
  IF ev.op = "slider" /\ ev.area = item.area THEN ev.value
  ELSE IF HasKey(m.sliders, item.area) THEN ValueOf(m.sliders, item.area)
  ELSE item.score

\* variant: the entries of the history hold the mapping itself, not a copy
\* of it, so that a score the sliders store shows in them
WithSlidersShared(m, values) ==
  [m EXCEPT !.roda_scores = values, !.sliders = values,
            !.history = [i \in 1..Len(@) |->
                           [@[i] EXCEPT !.roda_scores = values]]]

WithSliders(m, values) == [m EXCEPT !.roda_scores = values, !.sliders = values]

Sliders(m, ev) ==
  WithSliders(m, [k \in 1..Len(m.roda_scores) |->
                    [area |-> m.roda_scores[k].area,
                     score |-> SliderValue(m, ev, m.roda_scores[k])]])

\* variant: the new goal takes the area of the first score, whatever the
\* form has selected
NewGoalOfFirstArea(ev, now) ==
  [area |-> "Saude", specific |-> ev.specific, priority |-> ev.priority,
   completed |-> FALSE, created_date |-> now]

\* tab2, lines 3113-3135: the goal of the form; only the fields the model
\* reads are kept
NewGoal(ev, now) ==
  [area |-> ev.area, specific |-> ev.specific, priority |-> ev.priority,
   completed |-> FALSE, created_date |-> now]

\* tab5, lines 4423-4426 and 4456-4459: the option string of an entry, as
\* the day of its date and its average rounded to one decimal
AvgTenths(avg) ==
  LET q == (10 * avg.num) \div avg.den
      r == (10 * avg.num) % avg.den
  IN  IF 2 * r > avg.den THEN q + 1
      ELSE IF 2 * r < avg.den THEN q
      ELSE q + (q % 2)

OptionStr(entry) == <<entry.date \div TicksPerDay, AvgTenths(entry.avg_score)>>

\* variant: the index of the oldest entry with the option string
IndicesToDeleteOldest(hist, selected) ==
  {i \in 1..Len(hist) :
     /\ OptionStr(hist[i]) \in selected
     /\ \A j \in 1..(i - 1) : OptionStr(hist[j]) # OptionStr(hist[i])}

\* lines 4450-4461: the index of the most recent entry with the option
\* string, for each selected string that an entry has
IndicesToDelete(hist, selected) ==
  {i \in 1..Len(hist) :
     /\ OptionStr(hist[i]) \in selected
     /\ \A j \in (i + 1)..Len(hist) : OptionStr(hist[j]) # OptionStr(hist[i])}

\* lines 4463-4465: history.pop(idx) for each of the indices
PopAll(hist, indices) ==
  LET kept == {i \in 1..Len(hist) : i \notin indices}
  IN  [k \in 1..Cardinality(kept) |->
         hist[CHOOSE i \in kept :
                Cardinality({j \in kept : j <= i}) = k]]

\* a run that serves no user action: the first run, or one st.rerun() starts
NoEvent == [op |-> "render"]

\* the sidebar, lines 1735-1744: "Salvar Dados" calls save_data();
\* "Recarregar Dados" calls initialize_session_state() and st.rerun()
Sidebar(m, ev, outcome) ==
  IF ev.op = "sidebar_save" THEN DoSave(m, outcome)
  ELSE IF ev.op = "reload" THEN [RunInitialize(m) EXCEPT !.rerun = TRUE]
  ELSE m

\* tab1 up to the sliders, lines 1872-2265: the reload of scores that are
\* all 0, the average of line 1964, which raises on an empty mapping, and
\* the sliders of the manual assessment
Tab1(m, ev) ==
  IF m.rerun THEN m
  ELSE IF ZeroReloadFires(m) THEN [ZeroReload(m) EXCEPT !.rerun = TRUE]
  ELSE IF Len(m.roda_scores) = 0
  THEN [m EXCEPT !.aborted = "ZeroDivisionError"]
  ELSE IF m.manual THEN Sliders(m, ev)
  ELSE m

\* st.rerun() or an exception has stopped the run
Stopped(m) == m.rerun \/ m.aborted # "none"

\* tab1, lines 2270-2273: "Salvar Avaliacao"
SaveAssessmentButton(m, ev, outcome) ==
  IF Stopped(m) THEN m
  ELSE IF ev.op = "save_assessment" /\ m.manual
  THEN [DoSave(m, outcome) EXCEPT !.rerun = (outcome = "ok")]
  ELSE m

\* tab2, lines 3111-3135: the form of a new goal
GoalForm(m, ev, outcome, now) ==
  IF Stopped(m) THEN m
  ELSE IF ev.op = "goal_submit" /\ ev.specific # ""
  THEN [DoSave([m EXCEPT !.smart_goals = Append(@, NewGoal(ev, now))],
               outcome) EXCEPT !.rerun = TRUE]
  ELSE m

\* lines 3217-3225: smart_goals[edit_idx].update({...}) with the fields of
\* the form; completed and created_date are no keys of the update
UpdatedGoal(goal, ev) ==
  [area |-> ev.area, specific |-> ev.specific, priority |-> ev.priority]
    @@ goal

\* lines 3227-3229 and 3232-3233: del editing_goal_idx, st.rerun()
CloseDialog(m) ==
  [m EXCEPT !.tab2.editing_goal_idx = <<>>,
            !.tab2.edit_clicked_on = <<>>,
            !.rerun = TRUE]

\* the goal list with the goal at edit_idx updated
WithUpdate(m, edit_idx, ev) ==
  [m EXCEPT !.smart_goals[edit_idx] = UpdatedGoal(@, ev)]

\* tab2, lines 3137-3233: the dialog of the goal at editing_goal_idx, shown
\* when that index is within the list
EditDialog(m, ev, outcome) ==
  IF Stopped(m) \/ m.tab2.editing_goal_idx = <<>> THEN m
  ELSE IF m.tab2.editing_goal_idx[1] > Len(m.smart_goals) THEN m
  ELSE IF ev.op = "edit_save" /\ ev.specific # ""
  THEN CloseDialog(DoSave(WithUpdate(m, m.tab2.editing_goal_idx[1], ev),
                          outcome))
  ELSE IF ev.op = "edit_cancel" THEN CloseDialog(m)
  ELSE m

\* lines 3343-3346: the positions in smart_goals of the goals the area
\* filter lets through, in order.  The filters of status and priority are
\* left at "Todas".
FilteredGoals(goals, filter_area) ==
  SelectSeq([i \in 1..Len(goals) |-> i],
            LAMBDA i : filter_area = "Todas" \/ goals[i].area = filter_area)

\* line 3390: smart_goals.index(goal), the first position whose goal is
\* equal to the goal at position i
OriginalIdx(goals, i) ==
  CHOOSE j \in 1..i :
    /\ goals[j] = goals[i]
    /\ \A k \in 1..(j - 1) : goals[k] # goals[i]

HasCheck(ui, idx) == \E w \in ui.goal_complete : w.idx = idx

CheckOf(ui, idx) == CHOOSE w \in ui.goal_complete : w.idx = idx

\* the checkbox goal_complete_{idx} created with value=default is the
\* widget that has the state kept under that key
SameWidget(ui, idx, default) ==
  /\ HasCheck(ui, idx)
  /\ ui.key_only \/ CheckOf(ui, idx).value = default

\* lines 3594-3598: what st.checkbox returns: the state of the widget, which
\* the user has just changed or not, else the value it is created with
CheckboxValue(ui, ev, idx, default) ==
  IF SameWidget(ui, idx, default)
  THEN IF ev.op = "toggle" /\ ev.idx = idx
       THEN ~CheckOf(ui, idx).checked
       ELSE CheckOf(ui, idx).checked
  ELSE default

\* line 3599: smart_goals[original_idx]['completed'] = completed, and the
\* state the widget keeps
WithCheckbox(m, idx, default, checked) ==
  [m EXCEPT !.smart_goals[idx] = [completed |-> checked] @@ @,
            !.tab2.goal_complete =
               {w \in @ : w.idx # idx}
                 \cup {[idx |-> idx, value |-> default, checked |-> checked]},
            !.rendered = @ \cup {idx}]

\* lines 3601-3602: if completed != goal.get('completed', False):
\* save_data().  goal is the goal at position i of the list, read after
\* line 3599 has written into the goal at original_idx: the same goal when
\* i is original_idx, an equal goal further down the list when it is not.
SaveIfToggled(n, outcome, i, idx) ==
  IF GoalCompleted(n.smart_goals[idx]) # GoalCompleted(n.smart_goals[i])
  THEN DoSave(n, outcome)
  ELSE n

\* lines 3594-3602: the checkbox of an expanded card
Checkbox(m, ev, outcome, i, idx) ==
  SaveIfToggled(
    WithCheckbox(m, idx, GoalCompleted(m.smart_goals[i]),
                 CheckboxValue(m.tab2, ev, idx,
                               GoalCompleted(m.smart_goals[i]))),
    outcome, i, idx)

CreatedDate(goal) ==
  IF "created_date" \in DOMAIN goal THEN goal.created_date ELSE -1

\* smart_goals.pop(original_idx)
Pop(goals, idx) ==
  SubSeq(goals, 1, idx - 1) \o SubSeq(goals, idx + 1, Len(goals))

\* lines 3606-3616: "Editar" and "Excluir" of an expanded card
CardButtons(m, ev, outcome, idx) ==
  IF Stopped(m) THEN m
  ELSE IF ev.op = "edit" /\ ev.idx = idx
  THEN [m EXCEPT !.tab2.editing_goal_idx = <<idx>>,
                 !.tab2.edit_clicked_on = <<CreatedDate(m.smart_goals[idx])>>,
                 !.rerun = TRUE]
  ELSE IF ev.op = "delete" /\ ev.idx = idx
  THEN [DoSave([m EXCEPT !.smart_goals = Pop(@, idx)], outcome)
          EXCEPT !.rerun = TRUE]
  ELSE m

\* lines 3481-3485: the expand button adds the index to expanded_goals or
\* removes it
ExpandToggle(m, idx) ==
  [m EXCEPT !.tab2.expanded_goals =
               IF idx \in @ THEN @ \ {idx} ELSE @ \cup {idx},
            !.rerun = TRUE]

\* lines 3388-3616: the card of the goal at position i, whose widgets have
\* the keys of idx; a key that a card of this run has used already raises
CardAt(m, ev, outcome, i, idx, seen) ==
  IF idx \in seen
  THEN [m EXCEPT !.aborted = "StreamlitDuplicateElementKey"]
  ELSE IF ev.op = "expand" /\ ev.idx = idx THEN ExpandToggle(m, idx)
  ELSE IF idx \notin m.tab2.expanded_goals THEN m
  ELSE CardButtons(Checkbox(m, ev, outcome, i, idx), ev, outcome, idx)

\* the loop "for idx, goal in enumerate(filtered_goals)" over the positions
\* todo, seen being the indices whose keys are in use
RECURSIVE Cards(_, _, _, _, _)
Cards(m, ev, outcome, todo, seen) ==
  IF todo = <<>> \/ Stopped(m) THEN m
  ELSE Cards(CardAt(m, ev, outcome, Head(todo),
                    OriginalIdx(m.smart_goals, Head(todo)), seen),
             ev, outcome, Tail(todo),
             seen \cup {OriginalIdx(m.smart_goals, Head(todo))})

\* line 3326: the selectbox of the area filter
WithFilter(m, ev) ==
  IF ev.op = "filter" THEN [m EXCEPT !.tab2.filter_area = ev.area] ELSE m

\* tab2, lines 3236-3616: the list of the goals, shown when there is one
GoalList(m, ev, outcome) ==
  IF Stopped(m) \/ Len(m.smart_goals) = 0 THEN m
  ELSE Cards(WithFilter(m, ev), ev, outcome,
             FilteredGoals(m.smart_goals, WithFilter(m, ev).tab2.filter_area),
             {})

\* tab2, lines 2750-3636, in the order of the script
Tab2(m, ev, outcome, now) ==
  GoalList(EditDialog(GoalForm(m, ev, outcome, now), ev, outcome),
           ev, outcome)

\* tab5: the check-in (4108-4111) and the deletion of check-ins (4449-4469)
Tab5(m, ev, outcome, now) ==
  IF Stopped(m) THEN m
  ELSE IF ev.op = "checkin"
  THEN DoSave([m EXCEPT !.history =
                 add_to_history(SessionOf(m), now).history], outcome)
  ELSE IF ev.op = "delete_checkins" /\ ev.selected # {}
  THEN [DoSave([m EXCEPT !.history =
                  PopAll(@, IndicesToDelete(@, ev.selected))],
               outcome) EXCEPT !.rerun = TRUE]
  ELSE m

\* the end of a run: one that st.rerun() or an exception stopped keeps the
\* state of the widgets, one that ends without creating the sliders drops
\* their state
Finish(m) ==
  IF m.rerun \/ m.aborted # "none" \/ m.manual THEN m
  ELSE [m EXCEPT !.sliders = EmptyDict]

\* the same for tab2: a run that reaches its end drops the state of the
\* checkboxes it has not created, and that of the filter when it has not
\* shown the list
FinishTab2(m) ==
  IF Stopped(m) THEN m
  ELSE [m EXCEPT !.tab2.goal_complete = {w \in @ : w.idx \in m.rendered},
                 !.tab2.filter_area =
                    IF Len(m.smart_goals) = 0 THEN "Todas" ELSE @]

\* the run state at the end of one run of the script on the run state m0,
\* in the order of the script
RunOnce(m0, ev, outcome, now) ==
  FinishTab2(Finish(Tab5(Tab2(SaveAssessmentButton(
    Tab1(Sidebar(RunInitialize([m0 EXCEPT !.rerun = FALSE,
                                          !.rendered = {}]),
                 ev, outcome),
         ev),
    ev, outcome), ev, outcome, now), ev, outcome, now)))

\* the actions that read datetime.now(): a check-in and the creation of a
\* goal.  No two of them read the same time.
TakesTime(ev) ==
  \/ ev.op = "checkin"
  \/ ev.op = "goal_submit" /\ ev.specific # ""

\* the run state becomes the state of the session
Assign(m, ev) ==
  /\ roda_scores' = m.roda_scores
  /\ smart_goals' = m.smart_goals
  /\ history' = m.history
  /\ data_file' = m.file
  /\ sliders' = m.sliders
  /\ manual' = m.manual
  /\ save_result' = m.save_result
  /\ run_aborted' = IF m.rerun THEN "RerunLoop" ELSE m.aborted
  /\ init_changed' = m.init_changed
  /\ tab2' = m.tab2
  /\ last_op' = ev
  /\ clock' = IF TakesTime(ev) THEN clock + 1 ELSE clock
  /\ UNCHANGED <<insights, goals_by_area, show_insights, pc>>

\* the runs that serve the user action ev: the run the action starts and,
\* when it ends in st.rerun(), the run that follows, which serves no action
\* (its buttons are not pressed) and so reaches the end of the script
Step(ev, outcome) ==
  \E m \in {RunOnce(RunState(roda_scores, smart_goals, history, data_file,
                             sliders,
                             IF ev.op = "toggle_method" THEN ~manual
                             ELSE manual,
                             tab2),
                    ev, outcome, clock)} :
    \E n \in {IF m.rerun THEN RunOnce(m, NoEvent, "ok", clock) ELSE m} :
      Assign(n, ev)

\* ticks of the clock: HISTORY_CAP check-ins fill the history
MaxClock == HISTORY_CAP + MaxOverflow

\* values the user moves a slider to (lines 2247-2253: 0.0 to 10.0 by 0.5),
\* and the sliders moved, by position: the first
SliderValues == {0, 16}

MovedSliders == {1}

\* a run with no user action (the page is reloaded by the browser)
Render == last_op.op # "none" /\ Step(NoEvent, "ok")

\* the radio of line 2037 is set to the other assessment method
ToggleMethod ==
  last_op.op # "none" /\ Step([op |-> "toggle_method"], "ok")

\* a slider of the manual assessment is moved
MoveSlider ==
  /\ manual
  /\ \E k \in MovedSliders \cap (1..Len(sliders)) :
       \E v \in SliderValues \ {sliders[k].score} :
         Step([op |-> "slider", area |-> sliders[k].area, value |-> v], "ok")

\* the button "Salvar Dados" of the sidebar
SidebarSave(outcomes) ==
  /\ last_op.op # "none"
  /\ \E outcome \in outcomes : Step([op |-> "sidebar_save"], outcome)

\* the button "Recarregar Dados" of the sidebar
Reload == last_op.op # "none" /\ Step([op |-> "reload"], "ok")

\* the button "Salvar Avaliacao" under the sliders
SaveAssessment(outcomes) ==
  /\ manual
  /\ sliders # EmptyDict
  /\ \E outcome \in outcomes : Step([op |-> "save_assessment"], outcome)

\* the form of a new goal is submitted, its text filled in or left empty
SubmitGoal(outcomes) ==
  /\ last_op.op # "none"
  /\ run_aborted = "none"
  /\ Len(smart_goals) < MaxAppGoals
  /\ clock < MaxClock
  /\ \E specific \in {"", "meta"}, outcome \in outcomes :
       Step([op |-> "goal_submit", area |-> roda_scores[1].area,
             specific |-> specific, priority |-> "Media"], outcome)

\* the button "Registrar Check-in Mensal"
CheckIn(outcomes) ==
  /\ last_op.op # "none"
  /\ run_aborted = "none"
  /\ clock < MaxClock
  /\ \E outcome \in outcomes : Step([op |-> "checkin"], outcome)

\* check-ins are selected by their option strings and "Confirmar Exclusao"
\* is pressed
DeleteCheckins(outcomes) ==
  /\ last_op.op # "none"
  /\ run_aborted = "none"
  /\ \E selected \in SUBSET {OptionStr(history[i]) : i \in 1..Len(history)} :
       /\ selected # {}
       /\ Cardinality(selected) <= MaxSelected
       /\ \E outcome \in outcomes :
            Step([op |-> "delete_checkins", selected |-> selected], outcome)

\* the card of the goal at idx is on the page: the last run reached the
\* list and the filter lets the goal through
Shown(idx) ==
  /\ last_op.op # "none"
  /\ run_aborted = "none"
  /\ idx \in 1..Len(smart_goals)
  /\ tab2.filter_area \in {"Todas", smart_goals[idx].area}

\* the card is expanded: its checkbox and its two buttons are on the page
Expanded(idx) ==
  Shown(idx) /\ idx \in tab2.expanded_goals /\ HasCheck(tab2, idx)

\* the area filter of the list is set to another option
SetFilter ==
  /\ last_op.op # "none"
  /\ run_aborted = "none"
  /\ Len(smart_goals) > 0
  /\ \E area \in {"Todas", roda_scores[1].area} \ {tab2.filter_area} :
       Step([op |-> "filter", area |-> area], "ok")

\* "Ver Detalhes" or "Ocultar Detalhes" of a card
ExpandGoal ==
  \E idx \in 1..Len(smart_goals) :
    /\ Shown(idx)
    /\ idx \in tab2.expanded_goals
         \/ Cardinality(tab2.expanded_goals) < MaxExpanded
    /\ Step([op |-> "expand", idx |-> idx], "ok")

\* the checkbox "Marcar como Completada" of an expanded card is clicked
ToggleCompleted(outcomes) ==
  \E idx \in 1..Len(smart_goals), outcome \in outcomes :
    Expanded(idx) /\ Step([op |-> "toggle", idx |-> idx], outcome)

\* "Editar" of an expanded card
ClickEdit ==
  \E idx \in 1..Len(smart_goals) :
    Expanded(idx) /\ Step([op |-> "edit", idx |-> idx], "ok")

\* "Excluir" of an expanded card
DeleteGoal(outcomes) ==
  \E idx \in 1..Len(smart_goals), outcome \in outcomes :
    Expanded(idx) /\ Step([op |-> "delete", idx |-> idx], outcome)

\* the dialog of an edit is on the page
DialogShown ==
  /\ last_op.op # "none"
  /\ run_aborted = "none"
  /\ tab2.editing_goal_idx # <<>>
  /\ tab2.editing_goal_idx[1] <= Len(smart_goals)

\* what the user leaves in the form of the dialog: another text, or none,
\* with the second area and another priority
EditForms ==
  [op : {"edit_save"}, area : {roda_scores[2].area},
   specific : {"", "editada"}, priority : {"Alta"}]

\* "Salvar Alteracoes" of the dialog
SaveEdit(outcomes) ==
  /\ DialogShown
  /\ Cardinality({i \in 1..Len(smart_goals) :
                    smart_goals[i].specific = "editada"}) < MaxEdited
  /\ \E ev \in EditForms, outcome \in outcomes : Step(ev, outcome)

\* "Cancelar" of the dialog
CancelEdit == DialogShown /\ Step([op |-> "edit_cancel"], "ok")

\* what the user fills in the form of a new goal: a text or none, an area
\* and a priority
NewGoalForms ==
  {[op |-> "goal_submit", specific |-> "",
    area |-> roda_scores[1].area, priority |-> "Media"],
   [op |-> "goal_submit", specific |-> "nova",
    area |-> roda_scores[2].area, priority |-> "Alta"]}

\* "Criar Meta": the form of a new goal is submitted
CreateGoal(outcomes) ==
  /\ last_op.op # "none"
  /\ run_aborted = "none"
  /\ clock < MaxClock
  /\ \E ev \in NewGoalForms, outcome \in outcomes : Step(ev, outcome)

----------------------------------------------------------------------------
(* A session: the browser opens the page on the document it finds *)

\* the session before the first run of the script: st.session_state is empty
NotStartedOn(file, now, ui) ==
  /\ tab2 = ui
  /\ roda_scores = EmptyDict
  /\ smart_goals = <<>>
  /\ history = <<>>
  /\ data_file = file
  /\ sliders = EmptyDict
  /\ manual = FALSE
  /\ save_result = NotCalled
  /\ run_aborted = "none"
  /\ init_changed = FALSE
  /\ last_op = [op |-> "none"]
  /\ clock = now
  /\ insights = NotCalled
  /\ goals_by_area = EmptyDict
  /\ show_insights = NotCalled
  /\ pc = "ready"

NotStarted(file, now) == NotStartedOn(file, now, NoTab2(TRUE))

\* the first run of the script
Start ==
  /\ last_op.op = "none"
  /\ \E m \in {RunOnce(RunState(roda_scores, smart_goals, history, data_file,
                                sliders, manual, tab2),
                       NoEvent, "ok", clock)} :
       Assign([m EXCEPT !.init_changed = FALSE], [op |-> "start"])

----------------------------------------------------------------------------
(* The application: scores, goals and check-ins of a session, with writes  *)
(* of the document that fail                                                *)

\* the documents a session starts on: none, an unparsable one, one whose
\* only score is of no area of DEFAULT_RODA_SCORES, one with no scores
InitialFiles ==
  {NoFile,
   CorruptFile,
   JsonFile([roda_scores |-> <<[area |-> StrayArea, score |-> 16]>>,
             other_keys |-> TRUE]),
   JsonFile([roda_scores |-> <<>>, smart_goals |-> <<>>, history |-> <<>>])}

AppInit ==
  \E file \in InitialFiles :
    NotStarted(file, MaxClock - MaxAppCheckins - MaxAppGoals)

AppNext ==
  \/ Start
  \/ Render
  \/ ToggleMethod
  \/ MoveSlider
  \/ SidebarSave(SaveOutcomes)
  \/ Reload
  \/ SaveAssessment(SaveOutcomes)
  \/ SubmitGoal(SaveOutcomes)
  \/ CheckIn(SaveOutcomes)

AppSpec == AppInit /\ [][AppNext]_vars

----------------------------------------------------------------------------
(* Loading: the first run of a session on a document of any content *)

\* keys of roda_scores and areas of goals in a document: short names, their
\* legacy names, and a name that is no area
DocKeys ==
  {AreaNames[1], LegacyNames[1], AreaNames[2], LegacyNames[2], StrayArea}

DocScoreValues == {6, 16}

\* the mappings of at most MaxDocKeys distinct keys, in any order
DocScores ==
  UNION {{d \in [1..n -> [area : DocKeys, score : DocScoreValues]] :
            \A i, j \in 1..n : i # j => d[i].area # d[j].area} :
         n \in 0..MaxDocKeys}

DocGoal(area) ==
  [area |-> area, specific |-> "meta", completed |-> TRUE, created_date |-> 0]

DocGoals ==
  UNION {[1..n -> {DocGoal(area) :
                     area \in {AreaNames[1], LegacyNames[2], StrayArea}}] :
         n \in 0..MaxDocGoals}

Documents ==
  {NoFile, CorruptFile, JsonFile(<<>>), JsonFile([other_keys |-> TRUE])}
    \cup {JsonFile([roda_scores |-> d, smart_goals |-> g]) :
            d \in DocScores, g \in DocGoals}

LoadInit == \E file \in Documents : NotStarted(file, 0)

LoadNext == Start \/ Render

LoadSpec == LoadInit /\ [][LoadNext]_vars

----------------------------------------------------------------------------
(* The history of a long session: check-ins up to the cap and beyond it *)

\* the scores of the session and those of the check-ins of its document
HistScores ==
  <<[area |-> AreaNames[1], score |-> 6], [area |-> AreaNames[2], score |-> 16]>>

HistScoresBefore ==
  <<[area |-> AreaNames[1], score |-> 10], [area |-> AreaNames[2], score |-> 16]>>

\* the document of a session with two scored areas and one check-in less
\* than the history holds, made at the ticks from 0 on
HistFile ==
  JsonFile(SavedData(Session(HistScores, <<>>,
                             [t \in 1..(HISTORY_CAP - 1) |->
                                HistoryEntry(HistScoresBefore, t - 1)])))

\* writes of this session that fail leave the file as it was
HistOutcomes == {"ok", "open_failed"}

HistInit == NotStarted(HistFile, HISTORY_CAP - 1)

\* check-ins are deleted from a history that is full or nearly so
DeleteFromLong ==
  /\ Len(history) > HISTORY_CAP - MaxDeleted
  /\ DeleteCheckins(HistOutcomes)

HistNext ==
  \/ Start
  \/ CheckIn(HistOutcomes)
  \/ DeleteFromLong
  \/ Render

HistSpec == HistInit /\ [][HistNext]_vars

----------------------------------------------------------------------------
(* The goal list: a session on a document that has goals, under either    *)
(* way of identifying a widget, with writes of the document that fail      *)

\* the k-th goal of a document, created at tick k
ListGoal(k, area, completed) ==
  [area |-> area, specific |-> "meta", priority |-> "Media",
   completed |-> completed, created_date |-> k]

\* the goal lists of the documents: MaxListGoals goals, of the two scored
\* areas in turn, none of them completed or every second one
ListGoalLists ==
  {[k \in 1..MaxListGoals |->
      ListGoal(k, HistScores[2 - (k % 2)].area, c /\ k % 2 = 0)] :
     c \in BOOLEAN}

ListFile(goals) == JsonFile(SavedData(Session(HistScores, goals, <<>>)))

ListInit ==
  \E goals \in ListGoalLists, key_only \in BOOLEAN :
    NotStartedOn(ListFile(goals), MaxClock - MaxListTicks, NoTab2(key_only))

ListNext ==
  \/ Start
  \/ Render
  \/ SetFilter
  \/ ExpandGoal
  \/ ToggleCompleted({"ok"})
  \/ ClickEdit
  \/ SaveEdit(HistOutcomes)
  \/ CancelEdit
  \/ DeleteGoal(HistOutcomes)
  \/ CreateGoal(HistOutcomes)

ListSpec == ListInit /\ [][ListNext]_vars

\* the same session without the dialog of the edit: goals are created,
\* completed and deleted
FormNext ==
  \/ Start
  \/ Render
  \/ SetFilter
  \/ ExpandGoal
  \/ ToggleCompleted({"ok"})
  \/ DeleteGoal({"ok"})
  \/ CreateGoal(HistOutcomes)

FormSpec == ListInit /\ [][FormNext]_vars

----------------------------------------------------------------------------
(* Vocabulary of the properties, read off the session state *)

\* analyze_roda_insights was called and returned
Analyzed == pc = "analyzed" /\ insights.raised = "none"

\* position of an area in the insertion order of roda_scores
PosOf(area) ==
  CHOOSE k \in 1..Len(roda_scores) : roda_scores[k].area = area

\* the goals of smart_goals that name the area, by index
GoalsOf(area) == {i \in 1..Len(smart_goals) : smart_goals[i].area = area}

\* those of them whose completed flag is present and true
DoneOf(area) ==
  {i \in GoalsOf(area) :
     "completed" \in DOMAIN smart_goals[i] /\ smart_goals[i].completed}

PendingOf(area) == GoalsOf(area) \ DoneOf(area)

\* sum over the areas from the k-th on of 2 * score - 15, in ScoreUnit-ths:
\* negative exactly when the mean score is below 7.5
RECURSIVE DistanceTo7_5(_)
DistanceTo7_5(k) ==
  IF k > Len(roda_scores) THEN 0
  ELSE (2 * roda_scores[k].score - 15 * ScoreUnit) + DistanceTo7_5(k + 1)

----------------------------------------------------------------------------
(* Properties *)

\* C1: with at least 3 areas, bottom_3 is the first three items of the
\* stable ascending sort of the areas by score: exactly 3 items of the
\* mapping, scores non-decreasing, equal scores in insertion order, and
\* every area left out comes after every area of bottom_3 in that order
\* (so no area left out scores strictly lower than an area inside).
C1_Bottom3StableLowest ==
  (Analyzed /\ Len(roda_scores) >= 3) =>
    LET b == insights.bottom_3
    IN  /\ Len(b) = 3
        /\ \A i \in 1..3 : \E k \in 1..Len(roda_scores) : roda_scores[k] = b[i]
        /\ \A i, j \in 1..3 :
             i < j =>
               \/ b[i].score < b[j].score
               \/ /\ b[i].score = b[j].score
                  /\ PosOf(b[i].area) < PosOf(b[j].area)
        /\ \A k \in 1..Len(roda_scores) :
             (\A i \in 1..3 : b[i].area # roda_scores[k].area) =>
               \A i \in 1..3 :
                 \/ b[i].score < roda_scores[k].score
                 \/ /\ b[i].score = roda_scores[k].score
                    /\ PosOf(b[i].area) < k

\* a call on 4 areas where the sort moves an area forward, two areas of
\* bottom_3 tie, and the area left out ties with the last of bottom_3
C1_Witness ==
  /\ Analyzed
  /\ Len(roda_scores) = 4
  /\ insights.bottom_3[1].area # roda_scores[1].area
  /\ insights.bottom_3[1].score = insights.bottom_3[2].score
  /\ \E k \in 1..4 :
       /\ \A i \in 1..3 : insights.bottom_3[i].area # roda_scores[k].area
       /\ roda_scores[k].score = insights.bottom_3[3].score

\* C2: the action of each recommendation follows the precedence no goal ->
\* create_first; pending_count = 0 and completed_count > 0 -> create_more;
\* pending_count > 0 -> focus_existing.  An area none of whose goals is
\* pending gets create_more, whatever its score.
C2_ActionPrecedence ==
  Analyzed =>
    \A n \in 1..Len(insights.priority_recommendations) :
      LET rec == insights.priority_recommendations[n]
      IN  /\ GoalsOf(rec.area) = {} => rec.action = "create_first"
          /\ ( /\ GoalsOf(rec.area) # {}
               /\ rec.pending_count = 0
               /\ rec.completed_count > 0 ) => rec.action = "create_more"
          /\ ( /\ GoalsOf(rec.area) # {}
               /\ ~(rec.pending_count = 0 /\ rec.completed_count > 0)
               /\ rec.pending_count > 0 ) => rec.action = "focus_existing"
          /\ ( /\ GoalsOf(rec.area) # {}
               /\ PendingOf(rec.area) = {} ) => rec.action = "create_more"

\* a call that produces the three actions, create_more for a score above 5
C2_Witness ==
  /\ Analyzed
  /\ \E i, j, k \in 1..Len(insights.priority_recommendations) :
       /\ insights.priority_recommendations[i].action = "create_first"
       /\ insights.priority_recommendations[j].action = "create_more"
       /\ insights.priority_recommendations[j].score > 5 * ScoreUnit
       /\ insights.priority_recommendations[k].action = "focus_existing"

\* C3: priority_level is critical for score <= 3, high for 3 < score <= 5,
\* medium for score > 5.
C3_PriorityLevel ==
  Analyzed =>
    \A n \in 1..Len(insights.priority_recommendations) :
      LET rec == insights.priority_recommendations[n]
      IN  /\ rec.score <= 3 * ScoreUnit => rec.priority_level = "critical"
          /\ ( /\ rec.score > 3 * ScoreUnit
               /\ rec.score <= 5 * ScoreUnit ) => rec.priority_level = "high"
          /\ rec.score > 5 * ScoreUnit => rec.priority_level = "medium"

\* a call whose recommendations have the scores 3, 5 and 5.5
C3_Witness ==
  /\ Analyzed
  /\ Len(insights.priority_recommendations) = 3
  /\ insights.priority_recommendations[1].score = 3 * ScoreUnit
  /\ insights.priority_recommendations[1].priority_level = "critical"
  /\ insights.priority_recommendations[2].score = 5 * ScoreUnit
  /\ insights.priority_recommendations[2].priority_level = "high"
  /\ insights.priority_recommendations[3].score = 5 * ScoreUnit + 1
  /\ insights.priority_recommendations[3].priority_level = "medium"

\* C4: areas_without_goals holds exactly the areas of score <= 5 that no
\* goal names, once each, in ascending score order, with their score and
\* the severity critical for score <= 3 and high otherwise; with no goals
\* it holds every area of score <= 5.
C4_AreasWithoutGoals ==
  Analyzed =>
    LET awg == insights.areas_without_goals
        low == {k \in 1..Len(roda_scores) :
                  roda_scores[k].score <= 5 * ScoreUnit}
        lowNoGoal == {k \in low : GoalsOf(roda_scores[k].area) = {}}
    IN  /\ Len(awg) = Cardinality(lowNoGoal)
        /\ \A k \in lowNoGoal :
             \E i \in 1..Len(awg) : awg[i].area = roda_scores[k].area
        /\ \A i \in 1..Len(awg) :
             \E k \in lowNoGoal :
               /\ awg[i].area = roda_scores[k].area
               /\ awg[i].score = roda_scores[k].score
               /\ awg[i].severity =
                    IF roda_scores[k].score <= 3 * ScoreUnit
                    THEN "critical" ELSE "high"
        /\ \A i, j \in 1..Len(awg) : i < j => awg[i].score <= awg[j].score
        /\ smart_goals = <<>> =>
             {awg[i].area : i \in 1..Len(awg)}
               = {roda_scores[k].area : k \in low}

\* a call that lists more than 3 areas, of both severities, although the
\* goal list is not empty
C4_Witness ==
  /\ Analyzed
  /\ smart_goals # <<>>
  /\ Len(insights.areas_without_goals) > 3
  /\ \E i, j \in 1..Len(insights.areas_without_goals) :
       /\ insights.areas_without_goals[i].severity = "critical"
       /\ insights.areas_without_goals[j].severity = "high"

\* C5: on a non-empty mapping should_show_insights returns true exactly
\* when the mean of the scores is strictly below 7.5.
C5_ShowIffMeanBelow7_5 ==
  (pc = "shown" /\ Len(roda_scores) > 0) =>
    /\ show_insights.raised = "none"
    /\ show_insights.value = (DistanceTo7_5(1) < 0)

\* a call on the scores 7 and 8, of mean exactly 7.5, that returns false
C5_Witness ==
  /\ pc = "shown"
  /\ Len(roda_scores) = 2
  /\ roda_scores[1].score = 7 * ScoreUnit
  /\ roda_scores[2].score = 8 * ScoreUnit
  /\ show_insights.raised = "none"
  /\ show_insights.value = FALSE

\* C6: the average of an empty mapping is guarded: should_show_insights
\* yields a result and no error, whatever the mapping.
C6_AverageGuarded ==
  pc = "shown" => show_insights.raised = "none"

\* C7: analyze_roda_insights does not raise on an empty mapping or an empty
\* goal list; with fewer than 3 areas bottom_3 and priority_recommendations
\* have as many entries as there are areas; with no goals every count is 0.
C7_EmptyInputs ==
  pc = "analyzed" =>
    /\ (roda_scores = <<>> \/ smart_goals = <<>>) => insights.raised = "none"
    /\ (Analyzed /\ Len(roda_scores) < 3) =>
         /\ Len(insights.bottom_3) = Len(roda_scores)
         /\ Len(insights.priority_recommendations) = Len(roda_scores)
    /\ (Analyzed /\ smart_goals = <<>>) =>
         /\ DOMAIN goals_by_area = {}
         /\ \A n \in 1..Len(insights.priority_recommendations) :
              LET rec == insights.priority_recommendations[n]
              IN  /\ ~rec.has_goals
                  /\ rec.goal_count = 0
                  /\ rec.pending_count = 0
                  /\ rec.completed_count = 0

\* a call on two areas and no goal, that returns two recommendations
C7_Witness ==
  /\ Analyzed
  /\ Len(roda_scores) = 2
  /\ smart_goals = <<>>
  /\ Len(insights.bottom_3) = 2
  /\ Len(insights.priority_recommendations) = 2

\* C8: every entry of goals_by_area has total = completed + pending, where
\* completed counts the goals of the area whose completed flag is true and
\* pending the others (a goal without the flag is pending); every
\* recommendation has goal_count = pending_count + completed_count.
C8_TotalIsCompletedPlusPending ==
  Analyzed =>
    /\ \A a \in DOMAIN goals_by_area :
         /\ goals_by_area[a].total =
              goals_by_area[a].completed + goals_by_area[a].pending
         /\ goals_by_area[a].completed = Cardinality(DoneOf(a))
         /\ goals_by_area[a].pending = Cardinality(PendingOf(a))
    /\ \A n \in 1..Len(insights.priority_recommendations) :
         LET rec == insights.priority_recommendations[n]
         IN  rec.goal_count = rec.pending_count + rec.completed_count

\* a call where an area of bottom_3 has one completed goal and one goal
\* without the completed field
C8_Witness ==
  /\ Analyzed
  /\ \E n \in 1..Len(insights.priority_recommendations) :
       LET rec == insights.priority_recommendations[n]
       IN  /\ rec.completed_count = 1
           /\ rec.pending_count = 1
           /\ \E i \in GoalsOf(rec.area) :
                "completed" \notin DOMAIN smart_goals[i]

\* C9: goals_by_area has an entry exactly for the areas some goal names;
\* has_goals is true iff a goal names the area, and goal_count is the
\* number of goals that name it (0 when has_goals is false).
C9_EntryIffGoal ==
  Analyzed =>
    /\ DOMAIN goals_by_area =
         {smart_goals[i].area : i \in 1..Len(smart_goals)}
    /\ \A n \in 1..Len(insights.priority_recommendations) :
         LET rec == insights.priority_recommendations[n]
         IN  /\ rec.has_goals <=> (GoalsOf(rec.area) # {})
             /\ rec.goal_count = Cardinality(GoalsOf(rec.area))
             /\ ~rec.has_goals => rec.goal_count = 0

\* a call with a recommendation for an area without goal and one for an
\* area that two goals name
C9_Witness ==
  /\ Analyzed
  /\ \E m, n \in 1..Len(insights.priority_recommendations) :
       /\ ~insights.priority_recommendations[m].has_goals
       /\ insights.priority_recommendations[n].has_goals
       /\ insights.priority_recommendations[n].goal_count = 2

\* C10: priority_recommendations has one recommendation per entry of
\* bottom_3, in the same order, with the area and score of that entry.
C10_OneRecommendationPerBottom3 ==
  Analyzed =>
    /\ Len(insights.priority_recommendations) = Len(insights.bottom_3)
    /\ \A i \in 1..Len(insights.bottom_3) :
         /\ insights.priority_recommendations[i].area
              = insights.bottom_3[i].area
         /\ insights.priority_recommendations[i].score
              = insights.bottom_3[i].score

\* a call that returns three recommendations of strictly increasing scores,
\* the first not for the first area of the mapping
C10_Witness ==
  /\ Analyzed
  /\ Len(insights.priority_recommendations) = 3
  /\ insights.priority_recommendations[1].area # roda_scores[1].area
  /\ insights.priority_recommendations[1].score
       < insights.priority_recommendations[2].score
  /\ insights.priority_recommendations[2].score
       < insights.priority_recommendations[3].score

GoalsOfKnownAreas ==
  SelectSeq(smart_goals,
            LAMBDA goal : \E k \in 1..Len(roda_scores) :
                            roda_scores[k].area = goal.area)

\* C12: a goal whose area is not a key of roda_scores does not make
\* analyze_roda_insights raise, and bottom_3, areas_without_goals and the
\* recommendations with their counts, message and action are those of the
\* call on the goal list without such goals.
C12_StrayGoalsIgnored ==
  (pc = "analyzed" /\ \A i \in 1..Len(smart_goals) :
                        "area" \in DOMAIN smart_goals[i])
    => /\ insights.raised = "none"
       /\ LET without ==
                analyze_roda_insights(roda_scores, GoalsOfKnownAreas)
          IN  /\ insights.bottom_3 = without.bottom_3
              /\ insights.areas_without_goals = without.areas_without_goals
              /\ insights.priority_recommendations
                   = without.priority_recommendations

\* a call on a goal list with a goal of an area that is not scored and a
\* goal of a scored area, with a recommendation for an area without goals
C12_Witness ==
  /\ Analyzed
  /\ Len(GoalsOfKnownAreas) = 1
  /\ Len(smart_goals) = 2
  /\ \E n \in 1..Len(insights.priority_recommendations) :
       ~insights.priority_recommendations[n].has_goals

\* the history the handlers of a run find: the one line 1695 has set
HistoryAtCall ==
  initialize_session_state(data_file,
                           Session(roda_scores, smart_goals, history)).history

\* the step is a run that served the check-in button
CheckInStep == last_op'.op = "checkin" /\ clock' = clock + 1

\* C13: after a check-in the history has at most 12 entries: it is the
\* history the check-in found followed by the new entry, cut to its 12 most
\* recent entries when it is longer, in chronological order, the new entry
\* last.
C13_HistoryCappedAt12 ==
  [][CheckInStep =>
       LET entry == HistoryEntry(roda_scores', clock)
           all == Append(HistoryAtCall, entry)
           drop == IF Len(all) > 12 THEN Len(all) - 12 ELSE 0
       IN  /\ Len(history') <= 12
           /\ Len(history') = Len(all) - drop
           /\ \A i \in 1..Len(history') : history'[i] = all[i + drop]
           /\ history'[Len(history')] = entry
           /\ \A i \in 1..(Len(history') - 1) :
                history'[i].date < history'[i + 1].date]_vars

\* a check-in on a full history has evicted the oldest entry: the history
\* holds the check-ins of the ticks 1 to 12 and no longer that of tick 0
C13_Witness ==
  /\ last_op.op = "checkin"
  /\ Len(history) = 12
  /\ \A i \in 1..12 : history[i].date = i

\* the entry is in the history after the step as it was before
Retained(e) == \E j \in 1..Len(history') : history'[j] = e

\* no entry after the step has the date of e and another content
NotModified(e) ==
  \A j \in 1..Len(history') : history'[j].date = e.date => history'[j] = e

\* the step is a check-in that leaves 12 entries, all more recent than e
Evicted(e) ==
  /\ CheckInStep
  /\ Len(history') = 12
  /\ \A j \in 1..Len(history') : history'[j].date > e.date

\* the step is a deletion of check-ins in which the option string of e was
\* selected and e was the most recent entry with that string
Deleted(e) ==
  /\ last_op'.op = "delete_checkins"
  /\ OptionStr(e) \in last_op'.selected
  /\ \A j \in 1..Len(HistoryAtCall) :
       OptionStr(HistoryAtCall[j]) = OptionStr(e)
         => HistoryAtCall[j].date <= e.date

\* the run of the step has set the history from the document, which does
\* not hold e
Reinitialised(e) ==
  /\ init_changed'
  /\ \A j \in 1..Len(HistoryAtCall) : HistoryAtCall[j] # e

SavedOk == save_result.called /\ save_result.returned

\* C15: after a save_data() that succeeds, load_data() returns a document
\* whose roda_scores and smart_goals are those of the session that was
\* saved, key for key and goal for goal, in the same order.
C15_SaveLoadRoundTrip ==
  SavedOk =>
    LET loaded == load_data(data_file)
    IN  /\ ~loaded.none
        /\ loaded.data.roda_scores = save_result.session.roda_scores
        /\ loaded.data.smart_goals = save_result.session.smart_goals

\* a session that started without a document was saved with a goal and with
\* a score that is not 0
C15_Witness ==
  /\ SavedOk
  /\ Len(save_result.session.roda_scores) = Len(AreaNames)
  /\ save_result.session.roda_scores[1].score # 0
  /\ Len(save_result.session.smart_goals) > 0

\* roda_scores and smart_goals of the session as a document
SessionDocument ==
  [roda_scores |-> roda_scores, smart_goals |-> smart_goals]

\* the document the session started on has the legacy name as a key
DocHasKey(name) ==
  /\ data_file.kind = "json"
  /\ "roda_scores" \in DOMAIN data_file.data
  /\ HasKey(data_file.data.roda_scores, name)

\* C16: the migration of load_data applied to roda_scores and smart_goals
\* that load_data has migrated gives the same roda_scores and smart_goals.
C16_MigrationIdempotent ==
  (last_op.op # "none" /\ data_file.kind = "json")
    => load_data(JsonFile(SessionDocument)).data = SessionDocument

\* a session loaded from a document with a legacy key, a second key after
\* it that DEFAULT_RODA_SCORES has before it, and a goal of a legacy area
C16_Witness ==
  /\ last_op.op = "start"
  /\ DocHasKey(LegacyNames[2])
  /\ data_file.data.roda_scores[1].area = LegacyNames[2]
  /\ Len(roda_scores) = 2
  /\ Len(data_file.data.smart_goals) = 1
  /\ data_file.data.smart_goals[1].area = LegacyNames[2]

\* C17: after load_data no key of roda_scores and no area of a goal is a
\* legacy name: the short name of each legacy key of the document is a key
\* with the score of the legacy key, and a goal of a legacy area has the
\* short name as its area and its other fields as in the document, the
\* other goals being as in the document.
C17_LegacyNamesMigrated ==
  (last_op.op # "none" /\ data_file.kind = "json"
     /\ "roda_scores" \in DOMAIN data_file.data
     /\ "smart_goals" \in DOMAIN data_file.data)
    => /\ \A n \in 1..Len(LegacyNames) :
            /\ ~HasKey(roda_scores, LegacyNames[n])
            /\ \A i \in 1..Len(smart_goals) :
                 smart_goals[i].area # LegacyNames[n]
            /\ DocHasKey(LegacyNames[n])
                 => /\ HasKey(roda_scores, AreaNames[n])
                    /\ ValueOf(roda_scores, AreaNames[n])
                         = ValueOf(data_file.data.roda_scores,
                                   LegacyNames[n])
       /\ Len(smart_goals) = Len(data_file.data.smart_goals)
       /\ \A i \in 1..Len(smart_goals) :
            LET goal == data_file.data.smart_goals[i]
            IN  /\ DOMAIN smart_goals[i] = DOMAIN goal
                /\ \A f \in DOMAIN goal \ {"area"} :
                     smart_goals[i][f] = goal[f]
                /\ \A n \in 1..Len(LegacyNames) :
                     goal.area = LegacyNames[n]
                       => smart_goals[i].area = AreaNames[n]
                /\ (\A n \in 1..Len(LegacyNames) :
                      goal.area # LegacyNames[n])
                     => smart_goals[i].area = goal.area

\* a session loaded from a document that has an area under its short and
\* under its legacy name, with different scores, and a goal of a legacy area
C17_Witness ==
  /\ last_op.op = "start"
  /\ DocHasKey(LegacyNames[1])
  /\ DocHasKey(AreaNames[1])
  /\ ValueOf(data_file.data.roda_scores, LegacyNames[1])
       # ValueOf(data_file.data.roda_scores, AreaNames[1])
  /\ Len(smart_goals) = 1
  /\ data_file.data.smart_goals[1].area = LegacyNames[2]

\* the last run set the session from the document and changed nothing after
FreshFromDocument ==
  last_op.op \in {"start", "render", "reload"} /\ ~manual

\* C18: on a document that is missing or cannot be parsed load_data returns
\* None and raises nothing, and initialize_session_state leaves the ten
\* areas with score 0, no goal and no check-in.
C18_NoDocumentGivesDefaults ==
  (FreshFromDocument /\ data_file.kind # "json")
    => /\ load_data(data_file).none
       /\ run_aborted = "none"
       /\ Len(roda_scores) = 10
       /\ \A k \in 1..Len(roda_scores) :
            /\ roda_scores[k].area = AreaNames[k]
            /\ roda_scores[k].score = 0
       /\ smart_goals = <<>>
       /\ history = <<>>

\* a session started on a document that cannot be parsed
C18_Witness ==
  /\ last_op.op = "start"
  /\ data_file.kind = "corrupt"
  /\ Len(roda_scores) = 10

\* C19 as stated: after a save_data() that returned False, the goals, the
\* history and the scores of the session that was saved are those the next
\* render pass leaves in the session.
C19_FailedSaveKeepsState ==
  [][(save_result.called /\ ~save_result.returned
        /\ last_op'.op = "render")
       => /\ smart_goals' = save_result.session.smart_goals
          /\ history' = save_result.session.history
          /\ ~manual => roda_scores' = save_result.session.roda_scores]_vars

\* C20 as stated: after the first run, no run but one the user starts with
\* "Recarregar Dados" has initialize_session_state change the scores, the
\* goals or the history of the session.
C20_PopulatedOnlyAtStartup ==
  last_op.op \notin {"none", "start", "reload"} => ~init_changed

\* C29: the last branch of the recommendation rules is never taken: every
\* recommendation with has_goals has pending_count > 0 or completed_count
\* > 0, none carries the message of that branch, and create_first is the
\* action of areas that no goal names only.
C29_FallbackNeverTaken ==
  Analyzed =>
    \A n \in 1..Len(insights.priority_recommendations) :
      LET rec == insights.priority_recommendations[n]
      IN  /\ rec.has_goals =>
                (rec.pending_count > 0 \/ rec.completed_count > 0)
          /\ rec.message # <<"Area precisa de atencao">>
          /\ rec.action = "create_first" => GoalsOf(rec.area) = {}

\* a call on two goals that gives an area whose only goal is completed, an
\* area whose only goal is pending and an area without goal
C29_Witness ==
  /\ Analyzed
  /\ Len(smart_goals) = 2
  /\ \E i, j, k \in 1..Len(insights.priority_recommendations) :
       /\ insights.priority_recommendations[i].has_goals
       /\ insights.priority_recommendations[i].pending_count = 0
       /\ insights.priority_recommendations[i].completed_count = 1
       /\ insights.priority_recommendations[j].has_goals
       /\ insights.priority_recommendations[j].pending_count = 1
       /\ insights.priority_recommendations[j].completed_count = 0
       /\ ~insights.priority_recommendations[k].has_goals
       /\ insights.priority_recommendations[k].action = "create_first"

\* C28: when the insights are rendered (the mean of the scores is below
\* 7.5), every area of score <= 5 that no goal names is presented, as a
\* recommendation card or by name in the list of the other areas without
\* goals.
C28_LowAreasWithoutGoalsPresented ==
  (Analyzed /\ Len(roda_scores) > 0
     /\ should_show_insights(roda_scores).value) =>
    \A k \in 1..Len(roda_scores) :
      ( /\ roda_scores[k].score <= LOW_SCORE_THRESHOLD * ScoreUnit
        /\ GoalsOf(roda_scores[k].area) = {} ) =>
        roda_scores[k].area \in render_roda_insights(insights)

\* C26: once the session has started, by default initialisation or by the
\* load of any document, roda_scores holds exactly one score for each of
\* the ten areas of DEFAULT_RODA_SCORES: none is missing, none is added.
C26_TenAreasAlways ==
  last_op.op # "none" =>
    /\ Len(roda_scores) = Len(DEFAULT_RODA_SCORES)
    /\ \A k \in 1..Len(DEFAULT_RODA_SCORES) :
         HasKey(roda_scores, DEFAULT_RODA_SCORES[k].area)

\* C30: a history entry is an independent snapshot.  The entry a check-in
\* records holds the scores of that moment and their mean; and a run that
\* changes the current scores leaves every entry that is still in the
\* history with the roda_scores and avg_score it was recorded with.
C30_EntriesAreSnapshots ==
  [][/\ ( /\ last_op'.op = "checkin"
          /\ run_aborted' = "none"
          /\ Len(roda_scores') > 0 ) =>
         /\ history'[Len(history')].roda_scores = roda_scores'
         /\ history'[Len(history')].avg_score.num = SumScores(roda_scores')
         /\ history'[Len(history')].avg_score.den
              = ScoreUnit * Len(roda_scores')
     /\ roda_scores' # roda_scores =>
         \A i \in 1..Len(history') : \A j \in 1..Len(history) :
           history'[i].date = history[j].date => history'[i] = history[j]
    ]_vars

\* a slider was moved after a check-in: the entry holds the scores of the
\* check-in, which are no longer the current ones, and their mean
C30_Witness ==
  /\ last_op.op = "slider"
  /\ Len(history) = 1
  /\ history[1].roda_scores # roda_scores
  /\ history[1].avg_score.num = SumScores(history[1].roda_scores)
  /\ history[1].avg_score.num # SumScores(roda_scores)

\* the goals of the persisted document
DocumentGoals ==
  IF data_file.kind = "json" /\ "smart_goals" \in DOMAIN data_file.data
  THEN data_file.data.smart_goals
  ELSE <<>>

\* the step is a run that served a click on the checkbox of the goal at idx
ToggleStep(idx) == last_op' = [op |-> "toggle", idx |-> idx]

\* C22 as stated: a click on the checkbox of a goal writes the new value of
\* completed into the goal in memory and calls save_data() in the same run,
\* so that the goal of the persisted document has the new value.
C22_ToggleIsSaved ==
  [][\A idx \in 1..Len(smart_goals) :
       ToggleStep(idx) =>
         /\ Len(smart_goals') = Len(smart_goals)
         /\ GoalCompleted(smart_goals'[idx]) = ~GoalCompleted(smart_goals[idx])
         /\ save_result'.called
         /\ Len(DocumentGoals') = Len(smart_goals')
         /\ GoalCompleted(DocumentGoals'[idx])
              = GoalCompleted(smart_goals'[idx])]_vars

\* the history of the persisted document
DocumentHistory ==
  IF data_file.kind = "json" /\ "history" \in DOMAIN data_file.data
  THEN data_file.data.history
  ELSE <<>>

\* the last action was one of those that save as a part of the action
SavingAction ==
  last_op.op \in {"goal_submit", "edit_save", "delete", "checkin"}

\* C21 as stated: after the creation, the edit or the deletion of a goal or
\* a check-in whose save_data() returned True, smart_goals and history of
\* the persisted document are equal to those of the session.
C21_DocumentEqualsSession ==
  (SavingAction /\ SavedOk) =>
    /\ DocumentGoals = smart_goals
    /\ DocumentHistory = history

\* the goals the handlers of a run find: those line 1695 has set
GoalsAtCall ==
  initialize_session_state(data_file,
                           Session(roda_scores, smart_goals, history)).smart_goals

\* goals is the list before followed by one goal, which is not completed
\* and has the area, the text and the priority of the form ev
AppendsGoalOf(goals, before, ev) ==
  /\ Len(goals) = Len(before) + 1
  /\ SubSeq(goals, 1, Len(before)) = before
  /\ ~GoalCompleted(goals[Len(goals)])
  /\ "completed" \in DOMAIN goals[Len(goals)]
  /\ goals[Len(goals)].area = ev.area
  /\ goals[Len(goals)].specific = ev.specific
  /\ goals[Len(goals)].priority = ev.priority

Dates(goals) == [i \in 1..Len(goals) |-> CreatedDate(goals[i])]

\* the completed flags of the goals of a list, by position
Flags(goals) == [i \in 1..Len(goals) |-> GoalCompleted(goals[i])]

\* C24 as stated: the created_date of a goal never changes.  No step but a
\* creation or a deletion changes the dates of the goals; a creation keeps
\* those of the goals it found; a session that starts on a document has
\* the dates of the document, and a document that was saved has those of
\* the session; and an edit leaves the completed flag of every goal as it
\* was.
C24_CreatedDateImmutable ==
  [][/\ last_op'.op \notin {"start", "goal_submit", "delete"} =>
          Dates(smart_goals') = Dates(smart_goals)
     /\ last_op'.op = "goal_submit" =>
          SubSeq(Dates(smart_goals'), 1, Len(smart_goals))
            = Dates(smart_goals)
     /\ last_op'.op = "start" => Dates(smart_goals') = Dates(DocumentGoals)
     /\ (save_result'.called /\ save_result'.returned) =>
          Dates(DocumentGoals') = Dates(save_result'.session.smart_goals)
     /\ last_op'.op = "edit_save" =>
          Flags(smart_goals') = Flags(smart_goals)]_vars

\* the step is a run that served "Excluir" of the card of the goal at idx
DeleteStep(idx) == last_op' = [op |-> "delete", idx |-> idx]

\* C25 as stated: a deletion whose write succeeds removes one goal from
\* smart_goals, the one whose button was clicked, and leaves every other
\* goal as it was and in the same order, with the filter set or not.
C25_DeleteRemovesClicked ==
  [][\A idx \in 1..Len(smart_goals) :
       (DeleteStep(idx) /\ save_result'.called /\ save_result'.returned) =>
         smart_goals' = Pop(smart_goals, idx)]_vars

\* C27 as stated: "Salvar Alteracoes" of the dialog updates the goal on
\* which "Editar" was clicked and no other, whatever goals were created or
\* deleted since the click: every goal the run of the save found that is
\* not the clicked one, goals being told apart by their created_date, is
\* passed to save_data() as it was found.
C27_EditUpdatesClickedGoal ==
  [][(last_op'.op = "edit_save" /\ save_result'.called) =>
       \A i \in 1..Len(GoalsAtCall) :
         CreatedDate(GoalsAtCall[i]) # tab2.edit_clicked_on[1] =>
           /\ i <= Len(save_result'.session.smart_goals)
           /\ save_result'.session.smart_goals[i] = GoalsAtCall[i]]_vars

====
